---- MODULE Spec2Model ----
(***************************************************************************)
(* Model of the worker pool of scripts/model_server_manager.py             *)
(* (ModelServerManager) as it is driven by scripts/proxy.py.               *)
(*                                                                         *)
(* Two threads touch the pool:                                             *)
(*   "main"   - the event loop of the proxy.  chat_completions is a        *)
(*              coroutine that calls mgr.get_port() synchronously (no      *)
(*              await inside), so the calls of get_port run one at a time. *)
(*   "reaper" - the IdleChecker daemon thread of _start_idle_checker.      *)
(* The code holds no lock.  The threads are interleaved at the calls that  *)
(* release the interpreter lock (time.sleep, file and log output, signals, *)
(* sockets, HTTP, process creation); the in-memory statements between two  *)
(* such calls form one step.                                               *)
(*                                                                         *)
(* Specifications:                                                         *)
(*   Spec     - the pool under arbitrary get_port calls, with the idle     *)
(*              checker, the clock and process exits;                      *)
(*   SpecB    - the same pool with max_concurrent = 1 and a clock that     *)
(*              advances by protection windows (Scenario B);               *)
(*   SpecD    - chat_completions of proxy.py, one request at a time, with  *)
(*              the get_port calls it makes;                               *)
(*   SpecLoad - _load_state at construction, for every kind of state file; *)
(*   SpecR    - the route resolution of chat_completions alone;            *)
(*   SpecQ    - requests that arrive while the event loop is in get_port;  *)
(*   SpecPorts - get_port on a pool whose ports are partly bound already;  *)
(*   SpecSweep - the idle checker over a table loaded from the state file; *)
(*   SpecSave - _save_state and a concurrent _load_state, one system call  *)
(*              at a time.                                                 *)
(*   SpecPoll - get_port with its polling loops taken one iteration at a   *)
(*              time, under weak fairness of the calling thread;           *)
(*   SpecF    - chat_completions with the idle checker and the time that   *)
(*              passes while a request is being forwarded.                 *)
(***************************************************************************)
EXTENDS Integers, Sequences, FiniteSets, TLC

\* ------------------------------------------------------------- bounds
MaxTicks == 3
TickSeconds == 60
MaxPid == 3
\* the coarse clock of SpecB: steps of one protection window
MaxWindows == 2

\* ------------------------------------------------------ configuration
\* configs/models_registry.yaml: route -> ram_gb_approx (r2 is a large model)
registry == [r1 |-> 9, r2 |-> 12]
Routes == DOMAIN registry
\* a route name that is not in the registry
UnknownRoutes == {"rx"}
\* configs/network.yaml (a prefix of the default pool keeps the scan short)
port_pool == <<8084, 8085>>
ram_margin_gb == 4
large_threshold_gb == 10
\* values of max_concurrent and idle_timeout_min the configuration may hold;
\* the idle timeouts lie below and above the protection window
MaxConcurrentChoices == {1, 2}
IdleTimeoutChoices == {1, 2}
\* what psutil may report as free RAM (GB)
FreeRamChoices == {12, 20}
\* the window of _is_active_inference, in seconds
ProtectionWindow == 120

Threads == {"main", "reaper"}
NoRoute == "-"

VARIABLES
    now,          \* time.time(), seconds
    cfg,          \* [max_concurrent, idle_timeout_min]
    active,       \* self.active: route -> [port, pid, last_used]
    saved,        \* the table last written to STATE_FILE
    procs,        \* the live worker processes: pid -> [port, ready]
    nextPid,      \* the pid the next Popen gets
    port_cycle,   \* position of self.port_cycle in port_pool
    pc,           \* where each thread is
    uroute,       \* _unload_route: its argument, per thread
    uinfo,        \* _unload_route: info (line 93), per thread
    to_unload,    \* checker: the routes of the sweep still to unload
    req,          \* get_port/start_server: the call of the main thread
    disp,         \* chat_completions: the request the proxy is handling
    fs            \* STATE_FILE below the granularity of _save_state (SpecSave)

vars == <<now, cfg, active, saved, procs, nextPid, port_cycle, pc, uroute,
          uinfo, to_unload, req, disp, fs>>

NoDoc == [kind |-> "none", data |-> ""]
NoFs == [lock |-> {}, buf |-> [t \in Threads |-> NoDoc], reader |-> "off",
         seen |-> NoDoc, dumped |-> {}]
NoInfo == [port |-> 0, pid |-> 0, killed |-> FALSE]
NoReq == [route |-> NoRoute, free |-> 0, hit |-> 0, stale |-> 0, full |-> FALSE,
          evicted |-> NoRoute, port |-> 0, pid |-> 0, healthy |-> FALSE,
          ret |-> "pending", cause |-> "-", n |-> 0, epid |-> 0,
          polls |-> 0]

\* --------------------------------------------- proxy.py: the dispatcher
\* the default route of lines 137, 140 and 146 (a small registered route)
general_fast == "r1"
\* models_router.xml is generated from the registry (start.py)
AVAILABLE_ROUTES == Routes
\* range(3), line 188
MaxAttempts == 3
\* the length a reply must exceed, line 193
MinLength == 50
\* ChatRequest defaults (lines 57-58) and the retry settings (lines 198-199);
\* temperatures in tenths
DefaultMaxTokens == 512
DefaultTemperature == 7
TokenBoost == 512
RetryTemperature == 8
\* the lengths of the (stripped) content a worker may reply with
ReplyLens == {0, 40, 50, 80}
\* a text is [n, len, body]: the attempt it is the reply of (0: a literal of
\* the proxy), its length, and the length lines 204-208 leave of it (the
\* markup-free part)
Replies ==
    UNION {{[len |-> l, body |-> b] : b \in {0, l}} : l \in ReplyLens}
NoText == [n |-> 0, len |-> 0, body |-> 0]
\* "Sorry, response generation failed. Please try again."
Apology == [n |-> 0, len |-> 52, body |-> 52]
NoPayload == [extra |-> 0, max_tokens |-> 0, temperature |-> 0]
\* the order of the routes in models_router.xml (line 48)
available_order == <<"r1", "r2">>
\* req.model: "" stands for an absent (or empty) name
ModelNames == {""} \cup Routes \cup UnknownRoutes \cup {"other"}
\* What the call of the oracle (lines 100-104) gives:
\*   failed     - the post, the status or the shape of the body raises
\*   json       - the cleaned content is a JSON object; route is the value of
\*                its "route" key (NoRoute: the object has no such key)
\*   not_object - the cleaned content is JSON, but not an object
\*   text       - the cleaned content is not JSON; mentions are the known
\*                route names that occur in it
NoOracle == [kind |-> "-", route |-> NoRoute, mentions |-> {}]
OracleReplies ==
    {[NoOracle EXCEPT !.kind = "failed"], [NoOracle EXCEPT !.kind = "not_object"]}
    \cup {[NoOracle EXCEPT !.kind = "json", !.route = v] :
              v \in Routes \cup UnknownRoutes \cup {"other", NoRoute}}
    \cup {[NoOracle EXCEPT !.kind = "text", !.mentions = S] :
              S \in SUBSET AVAILABLE_ROUTES}
NoDisp == [phase |-> "idle", resolved |-> NoRoute, route |-> NoRoute,
           calls |-> << >>, port |-> 0, lens |-> << >>, temp_text |-> NoText,
           payload |-> NoPayload, status |-> 0, content |-> NoText,
           model |-> NoRoute, explicit |-> "", oracle |-> NoOracle,
           fail |-> "-", waiting |-> {}]

\* ------------------------------------------------------------ helpers
EmptyTable == [x \in {} |-> NoInfo]
Remove(f, k) == [x \in DOMAIN f \ {k} |-> f[x]]
Put(f, k, v) == [x \in DOMAIN f \cup {k} |-> IF x = k THEN v ELSE f[x]]

pid_exists(pid) == pid \in DOMAIN procs

\* _port_is_free: the bind succeeds unless a live worker listens on the port
port_is_free(port) ==
    ~ \E p \in DOMAIN procs : procs[p].port = port /\ procs[p].ready

\* (a variant that measures the window with the idle timeout)
is_active_inference_idle(route) ==
    IF route \notin DOMAIN active THEN FALSE
    ELSE now - active[route].last_used < cfg.idle_timeout_min * 60
is_active_inference(route) ==
    IF route \notin DOMAIN active THEN FALSE
    ELSE now - active[route].last_used < 120

\* (a variant that takes the most recently used routes)
OldestNewest ==
    {r \in DOMAIN active :
        \A q \in DOMAIN active : active[r].last_used >= active[q].last_used}
\* min(self.active, key=last_used): the routes min() may return
Oldest ==
    {r \in DOMAIN active :
        \A q \in DOMAIN active : active[r].last_used <= active[q].last_used}

\* (a variant that applies the test to routes of every size)
InsufficientRamAnySize(route, free) == free < registry[route] + ram_margin_gb
\* (a variant that forgets the safety margin)
InsufficientRamNoMargin(route, free) ==
    registry[route] >= large_threshold_gb /\ free < registry[route]
\* line 151: the RAM admission test
InsufficientRam(route, free) ==
    registry[route] >= large_threshold_gb
    /\ free < registry[route] + ram_margin_gb

\* (a variant that stays on the same port)
NextIdxStay(i) == i
\* next(self.port_cycle): the pool is cycled
NextIdx(i) == (i % Len(port_pool)) + 1
\* line 158
max_attempts == Len(port_pool) * 2
\* the while loop of start_server: the index of the port it ends on
RECURSIVE ScanPorts(_, _)
ScanPorts(i, attempts) ==
    IF ~port_is_free(port_pool[i]) /\ attempts < max_attempts
    THEN ScanPorts(NextIdx(i), attempts + 1)
    ELSE i

\* ----------------------------------------------------------------- Init
\* __init__: start.py clears the state file before it starts the proxy, so
\* _load_state returns the empty table
Init ==
    /\ now = 0
    /\ cfg \in [max_concurrent : MaxConcurrentChoices,
                idle_timeout_min : IdleTimeoutChoices]
    /\ active = EmptyTable
    /\ saved = EmptyTable
    /\ procs = EmptyTable
    /\ nextPid = 1
    /\ port_cycle = 1
    /\ pc = [t \in Threads |-> IF t = "main" THEN "idle" ELSE "sleep"]
    /\ uroute = [t \in Threads |-> NoRoute]
    /\ uinfo = [t \in Threads |-> NoInfo]
    /\ to_unload = {}
    /\ req = NoReq
    /\ disp = NoDisp
    /\ fs = NoFs

\* ---------------------------------------------------------- environment
\* time passes
Tick ==
    /\ now < MaxTicks * TickSeconds
    /\ now' = now + TickSeconds
    /\ UNCHANGED <<cfg, active, saved, procs, nextPid, port_cycle, pc, uroute,
                   uinfo, to_unload, req, disp, fs>>

\* a running worker process exits on its own (crash, or exit after SIGTERM);
\* a process that dies while starting is the case HealthExhausted
ProcExit ==
    \E p \in DOMAIN procs :
        /\ procs[p].ready
        /\ procs' = Remove(procs, p)
        /\ UNCHANGED <<now, cfg, active, saved, nextPid, port_cycle, pc,
                       uroute, uinfo, to_unload, req, disp, fs>>

\* ------------------------------------------------------- _unload_route
\* the record of route r in the specifications that fix it: the i-th route
\* has the i-th port and the pid i
RecordOf(r) ==
    LET i == CHOOSE j \in DOMAIN available_order : available_order[j] = r
    IN [port |-> port_pool[i], pid |-> i, last_used |-> 0]

\* a record has the key "pid" (a record read from STATE_FILE may lack it)
WellFormed(rec) == "pid" \in DOMAIN rec

\* lines 91-96: the guard, info, SIGTERM.  The caller continues at `back`
\* when the guard returns.  Line 94 formats info['pid'] before the try of
\* line 95: on a record without that key the KeyError leaves _unload_route
\* and its caller (pc = "raised"; nothing in checker() catches it, so the
\* IdleChecker thread ends there).
UnloadEnter(t, route, back) ==
    /\ uroute' = [uroute EXCEPT ![t] = route]
    /\ IF route \notin DOMAIN active \/ is_active_inference(route)
       THEN /\ pc' = [pc EXCEPT ![t] = back]
            /\ UNCHANGED uinfo
       ELSE IF ~WellFormed(active[route])
       THEN /\ pc' = [pc EXCEPT ![t] = "raised"]
            /\ UNCHANGED uinfo
       ELSE /\ uinfo' = [uinfo EXCEPT ![t] =
                            [port |-> active[route].port,
                             pid |-> active[route].pid, killed |-> FALSE]]
            /\ pc' = [pc EXCEPT ![t] = "u_wait"]

\* (a variant that sends no SIGKILL)
ForceKillNot(pid) == procs
\* lines 101-102: if psutil.pid_exists(pid): os.kill(pid, 9)
ForceKill(pid) == IF pid_exists(pid) THEN Remove(procs, pid) ELSE procs

\* lines 97-111: wait for the exit, SIGKILL if still alive, wait for the port.
\* uinfo.killed records whether the SIGKILL was sent.
UnloadWait(t) ==
    /\ pc[t] = "u_wait"
    /\ procs' = ForceKill(uinfo[t].pid)
    /\ uinfo' = [uinfo EXCEPT ![t].killed = pid_exists(uinfo[t].pid)]
    /\ pc' = [pc EXCEPT ![t] = "u_remove"]
    /\ UNCHANGED <<now, cfg, active, saved, nextPid, port_cycle, uroute,
                   to_unload, req, disp, fs>>

\* lines 113-115: remove the record, save
UnloadRemove(t) ==
    /\ pc[t] = "u_remove"
    /\ IF uroute[t] \in DOMAIN active
       THEN /\ active' = Remove(active, uroute[t])
            /\ saved' = active'
            /\ req' = IF t = "main" THEN [req EXCEPT !.evicted = uroute[t]]
                      ELSE req
       ELSE UNCHANGED <<active, saved, req>>
    /\ pc' = [pc EXCEPT ![t] = IF t = "main" THEN "start" ELSE "loop"]
    /\ uinfo' = [uinfo EXCEPT ![t] = NoInfo]
    /\ UNCHANGED <<now, cfg, procs, nextPid, port_cycle, uroute, to_unload,
                   disp, fs>>

\* -------------------------------------------------- _start_idle_checker
\* lines 120-126: one sweep selects the idle, unprotected routes (the phase of
\* the 60 s period against the requests is arbitrary)
Sweep ==
    /\ pc["reaper"] = "sleep"
    /\ to_unload' =
          {r \in DOMAIN active :
              /\ now - active[r].last_used > cfg.idle_timeout_min * 60
              /\ ~is_active_inference(r)}
    /\ pc' = [pc EXCEPT !["reaper"] = "loop"]
    /\ UNCHANGED <<now, cfg, active, saved, procs, nextPid, port_cycle,
                   uroute, uinfo, req, disp, fs>>

\* lines 127-129: the for loop calls _unload_route for the next route
SweepLoop ==
    /\ pc["reaper"] = "loop"
    /\ IF to_unload = {}
       THEN /\ pc' = [pc EXCEPT !["reaper"] = "sleep"]
            /\ uroute' = [uroute EXCEPT !["reaper"] = NoRoute]
            /\ UNCHANGED <<to_unload, uinfo>>
       ELSE \E r \in to_unload :
                /\ to_unload' = to_unload \ {r}
                /\ UnloadEnter("reaper", r, "loop")
    /\ UNCHANGED <<now, cfg, active, saved, procs, nextPid, port_cycle, req,
                   disp, fs>>

\* ------------------------------------------------------------- get_port
\* proxy.py line 143: the event loop calls mgr.get_port(route)
Begin ==
    /\ pc["main"] = "idle"
    /\ nextPid <= MaxPid
    /\ \E r \in Routes \cup UnknownRoutes : req' = [NoReq EXCEPT !.route = r]
    /\ pc' = [pc EXCEPT !["main"] = "get_port"]
    /\ UNCHANGED <<now, cfg, active, saved, procs, nextPid, port_cycle,
                   uroute, uinfo, to_unload, disp, fs>>

\* (a variant that resets the stamp)
TouchReset(route) == [active EXCEPT ![route].last_used = 0]
\* line 197: self.active[route]["last_used"] = time.time()
Touch(route) == [active EXCEPT ![route].last_used = now]

\* lines 195-198 (live: refresh and save) or 195-201 (dead process)
GetPort ==
    /\ pc["main"] = "get_port"
    /\ IF req.route \in DOMAIN active
       THEN LET rec == active[req.route] IN
            IF pid_exists(rec.pid)
            THEN /\ active' = Touch(req.route)
                 /\ saved' = active'
                 /\ \E free \in FreeRamChoices :
                    req' = [req EXCEPT !.free = free, !.hit = rec.port,
                               !.stale = IF rec.pid \in DOMAIN procs THEN 0
                                         ELSE rec.pid]
                 /\ pc' = [pc EXCEPT !["main"] = "fast_ret"]
            ELSE /\ req' = [req EXCEPT !.stale = rec.pid]
                 /\ pc' = [pc EXCEPT !["main"] = "stale_del"]
                 /\ UNCHANGED <<active, saved>>
       ELSE /\ pc' = [pc EXCEPT !["main"] = "cap"]
            /\ UNCHANGED <<active, saved, req>>
    /\ UNCHANGED <<now, cfg, procs, nextPid, port_cycle, uroute, uinfo,
                   to_unload, disp, fs>>

\* line 199: return self.active[route]["port"] (KeyError if the record is gone)
FastReturn ==
    /\ pc["main"] = "fast_ret"
    /\ req' = IF req.route \in DOMAIN active
              THEN [req EXCEPT !.ret = "port", !.port = active[req.route].port]
              ELSE [req EXCEPT !.ret = "raised"]
    /\ pc' = [pc EXCEPT !["main"] = "done"]
    /\ UNCHANGED <<now, cfg, active, saved, procs, nextPid, port_cycle,
                   uroute, uinfo, to_unload, disp, fs>>

\* lines 202-203: del self.active[route] (KeyError if the record is gone), save
StaleDiscard ==
    /\ pc["main"] = "stale_del"
    /\ IF req.route \in DOMAIN active
       THEN /\ active' = Remove(active, req.route)
            /\ saved' = active'
            /\ pc' = [pc EXCEPT !["main"] = "cap"]
            /\ UNCHANGED req
       ELSE /\ req' = [req EXCEPT !.ret = "raised"]
            /\ pc' = [pc EXCEPT !["main"] = "done"]
            /\ UNCHANGED <<active, saved>>
    /\ UNCHANGED <<now, cfg, procs, nextPid, port_cycle, uroute, uinfo,
                   to_unload, disp, fs>>

\* --------------------------------------------------------- start_server
\* (a variant that evicts only when the table is over max_concurrent)
AtCapacityStrict == Cardinality(DOMAIN active) > cfg.max_concurrent
\* line 136: len(self.active) >= self.max_concurrent
AtCapacity == Cardinality(DOMAIN active) >= cfg.max_concurrent

\* lines 136-138 (and 91-96 of the call): the capacity check
Capacity ==
    /\ pc["main"] = "cap"
    /\ IF AtCapacity
       THEN \E oldest \in Oldest :
                /\ UnloadEnter("main", oldest, "start")
                /\ req' = [req EXCEPT
                      !.n = Cardinality(DOMAIN active),
                      !.epid = active[oldest].pid,
                      !.full =
                         /\ Cardinality(DOMAIN active) = cfg.max_concurrent
                         /\ \A r \in DOMAIN active :
                                now - active[r].last_used < ProtectionWindow]
       ELSE /\ pc' = [pc EXCEPT !["main"] = "start"]
            /\ req' = [req EXCEPT !.n = Cardinality(DOMAIN active)]
            /\ UNCHANGED <<uroute, uinfo>>
    /\ UNCHANGED <<now, cfg, active, saved, procs, nextPid, port_cycle,
                   to_unload, disp, fs>>

\* lines 140-169: registry, model files, RAM, port scan, Popen
Start ==
    /\ pc["main"] = "start"
    /\ \E model_path_exists \in BOOLEAN, free \in FreeRamChoices :
       LET idx == ScanPorts(port_cycle, 0)
           port == port_pool[idx]
           cause == IF req.route \notin DOMAIN registry THEN "unknown_route"
                    ELSE IF ~model_path_exists THEN "model_missing"
                    ELSE IF InsufficientRam(req.route, free) THEN "ram"
                    ELSE IF ~port_is_free(port) THEN "no_port"
                    ELSE "-"
       IN
       /\ port_cycle' = IF cause \in {"no_port", "-"} THEN NextIdx(idx)
                        ELSE port_cycle
       /\ IF cause # "-"
          THEN /\ req' = [req EXCEPT !.free = free, !.ret = "none",
                                     !.cause = cause]
               /\ pc' = [pc EXCEPT !["main"] = "done"]
               /\ UNCHANGED <<procs, nextPid>>
          ELSE /\ procs' = Put(procs, nextPid, [port |-> port, ready |-> FALSE])
               /\ nextPid' = nextPid + 1
               /\ req' = [req EXCEPT !.free = free, !.port = port,
                                     !.pid = nextPid]
               /\ pc' = [pc EXCEPT !["main"] = "health"]
    /\ UNCHANGED <<now, cfg, active, saved, uroute, uinfo, to_unload,
                   disp, fs>>

\* lines 171-192: /health answers 200 within the 18 polls: insert, save, return
HealthOk ==
    /\ pc["main"] = "health"
    /\ pid_exists(req.pid)
    /\ procs' = [procs EXCEPT ![req.pid].ready = TRUE]
    /\ active' = Put(active, req.route,
                     [port |-> req.port, pid |-> req.pid, last_used |-> now])
    /\ saved' = active'
    /\ req' = [req EXCEPT !.healthy = TRUE, !.ret = "port"]
    /\ pc' = [pc EXCEPT !["main"] = "done"]
    /\ UNCHANGED <<now, cfg, nextPid, port_cycle, uroute, uinfo, to_unload,
                   disp, fs>>

\* (a variant that leaves the spawned process running)
KillSpawnedNot == procs
\* lines 184-187: os.kill(pid, 9), errors ignored
KillSpawned ==
    IF pid_exists(req.pid) THEN Remove(procs, req.pid) ELSE procs

\* lines 171-188: the polls are exhausted (the else branch of the for loop):
\* SIGKILL, return None
HealthExhausted ==
    /\ pc["main"] = "health"
    /\ procs' = KillSpawned
    /\ req' = [req EXCEPT !.ret = "none", !.cause = "timeout"]
    /\ pc' = [pc EXCEPT !["main"] = "done"]
    /\ UNCHANGED <<now, cfg, active, saved, nextPid, port_cycle, uroute,
                   uinfo, to_unload, disp, fs>>

\* get_port has returned (or raised) to the proxy
Finish ==
    /\ pc["main"] = "done"
    /\ pc' = [pc EXCEPT !["main"] = "idle"]
    /\ req' = NoReq
    /\ uroute' = [uroute EXCEPT !["main"] = NoRoute]
    /\ UNCHANGED <<now, cfg, active, saved, procs, nextPid, port_cycle,
                   uinfo, to_unload, disp, fs>>

Next ==
    \/ Tick
    \/ ProcExit
    \/ Begin
    \/ GetPort
    \/ FastReturn
    \/ StaleDiscard
    \/ Capacity
    \/ UnloadWait("main")
    \/ UnloadRemove("main")
    \/ Start
    \/ HealthOk
    \/ HealthExhausted
    \/ Finish
    \/ Sweep
    \/ SweepLoop
    \/ UnloadWait("reaper")
    \/ UnloadRemove("reaper")

Spec == Init /\ [][Next]_vars

\* ------------------------------------------------ the pool of Scenario B
\* max_concurrent = 1, and a clock that advances by whole protection windows
InitB == Init /\ cfg.max_concurrent = 1

TickB ==
    /\ now < MaxWindows * ProtectionWindow
    /\ now' = now + ProtectionWindow
    /\ UNCHANGED <<cfg, active, saved, procs, nextPid, port_cycle, pc, uroute,
                   uinfo, to_unload, req, disp, fs>>

NextB ==
    \/ TickB
    \/ ProcExit
    \/ Begin
    \/ GetPort
    \/ FastReturn
    \/ StaleDiscard
    \/ Capacity
    \/ UnloadWait("main")
    \/ UnloadRemove("main")
    \/ Start
    \/ HealthOk
    \/ HealthExhausted
    \/ Finish
    \/ Sweep
    \/ SweepLoop
    \/ UnloadWait("reaper")
    \/ UnloadRemove("reaper")

SpecB == InitB /\ [][NextB]_vars

\* ------------------------------------------------------ chat_completions
\* One request at a time.  The steps are the stretches between two awaits;
\* get_port runs inside the handler, as the steps GetPort .. HealthExhausted.

\* lines 120-127: the first route of AVAILABLE_ROUTES that the text mentions
FirstMentioned(S) ==
    IF S = {} THEN general_fast
    ELSE available_order[CHOOSE i \in DOMAIN available_order :
                            /\ available_order[i] \in S
                            /\ \A j \in 1..(i - 1) : available_order[j] \notin S]

\* lines 100-132: the route the oracle's answer is read as
classify(o) ==
    IF o.kind = "failed" THEN general_fast                   \* line 132
    ELSE IF o.kind = "not_object" THEN general_fast          \* data.get raises
    ELSE IF o.kind = "json"
         THEN IF o.route = NoRoute THEN general_fast ELSE o.route  \* line 117
    ELSE FirstMentioned(o.mentions)

\* (a variant that lets every name through)
validate_none(route) == route
\* lines 135-140
validate(route) ==
    IF route \notin AVAILABLE_ROUTES /\ route # "other" THEN general_fast
    ELSE IF route = "other" THEN general_fast
    ELSE route

\* lines 66-140: the oracle is asked only when the request names no route
resolve_route(m, o) == validate(IF m # "" THEN m ELSE classify(o))

\* lines 61-143: the route is resolved and validated, get_port is called
Resolve ==
    /\ disp.phase = "idle"
    /\ pc["main"] = "idle"
    /\ nextPid <= MaxPid
    /\ \E m \in ModelNames, o \in OracleReplies :
          LET r == resolve_route(m, o) IN
          /\ disp' = [NoDisp EXCEPT !.phase = "acquire", !.resolved = r,
                                    !.route = r,
                                    !.calls = <<[route |-> r, ret |-> "pending"]>>]
          /\ req' = [NoReq EXCEPT !.route = r]
    /\ pc' = [pc EXCEPT !["main"] = "get_port"]
    /\ UNCHANGED <<now, cfg, active, saved, procs, nextPid, port_cycle,
                   uroute, uinfo, to_unload, fs>>

\* (a variant that asks for the same route again)
FallbackRouteSame == disp.route
\* line 146
FallbackRoute == general_fast

\* lines 143-163: get_port has returned (or raised)
Acquired ==
    /\ disp.phase = "acquire"
    /\ pc["main"] = "done"
    /\ LET k == Len(disp.calls)
           calls == [disp.calls EXCEPT ![k].ret = req.ret]
       IN
       IF req.ret = "port"
       THEN /\ disp' = [disp EXCEPT !.phase = "forward", !.calls = calls,
                           !.port = req.port,
                           !.payload = [extra |-> 0,
                                        max_tokens |-> DefaultMaxTokens,
                                        temperature |-> DefaultTemperature]]
            /\ req' = NoReq
            /\ pc' = [pc EXCEPT !["main"] = "idle"]
       ELSE IF req.ret = "none" /\ k = 1
       THEN /\ disp' = [disp EXCEPT !.route = FallbackRoute,
                           !.calls = Append(calls, [route |-> FallbackRoute,
                                                    ret |-> "pending"])]
            /\ req' = [NoReq EXCEPT !.route = FallbackRoute]
            /\ pc' = [pc EXCEPT !["main"] = "get_port"]
       ELSE /\ disp' = [disp EXCEPT !.phase = "done", !.calls = calls,
                           !.status = IF req.ret = "none" THEN 503 ELSE 500]
            /\ req' = NoReq
            /\ pc' = [pc EXCEPT !["main"] = "idle"]
    /\ uroute' = [uroute EXCEPT !["main"] = NoRoute]
    /\ UNCHANGED <<now, cfg, active, saved, procs, nextPid, port_cycle,
                   uinfo, to_unload, fs>>

\* line 193: the reply is long enough
Accepts(text) == text.len > MinLength

\* lines 197-199: one more continuation message, more tokens
Retry(payload) ==
    [extra |-> payload.extra + 1,
     max_tokens |-> payload.max_tokens + TokenBoost,
     temperature |-> RetryTemperature]

\* lines 204-208: the markup is cut out of the text
Clean(text) == [text EXCEPT !.len = text.body]

\* (a variant that reports the route that was resolved)
AnnotationResolved == disp.resolved
\* line 201: data["model"] = route
Annotation == disp.route

\* lines 201-231: the response, given response_text; the save to the memory
\* collection may raise
Finalize(d, response_text, saved_ok) ==
    [d EXCEPT !.phase = "done",
              !.model = Annotation,
              !.content = IF Clean(response_text).len = 0 THEN Apology
                          ELSE Clean(response_text),
              !.status = IF saved_ok THEN 200 ELSE 500,
              !.fail = IF saved_ok THEN "-" ELSE "memory"]

\* the worker that listens on the port of the request
Listening(port) ==
    \E p \in DOMAIN procs : procs[p].port = port /\ procs[p].ready

\* lines 188-199: one attempt of the loop, and lines 201-231 when it was the
\* last one.  The post fails (connection, status, timeout: httpx.HTTPError),
\* or the body is not the expected JSON, or a reply arrives.  disp.fail
\* records which failure ended the request:
\*   transport - line 189 or 190 raises httpx.HTTPError (worker unreachable,
\*               timeout, error status)
\*   malformed - line 191 or 192 raises (body not JSON, or without
\*               choices[0].message.content)
\*   memory    - lines 222-228 raise (the save to the memory collection)
BackendFailures == {"transport", "malformed"}
Post ==
    /\ disp.phase = "forward"
    /\ \/ disp' = [disp EXCEPT !.phase = "done", !.status = 502,
                                !.fail = "transport"]
       \/ /\ Listening(disp.port)
          /\ disp' = [disp EXCEPT !.phase = "done", !.status = 500,
                                   !.fail = "malformed"]
       \/ /\ Listening(disp.port)
          /\ \E reply \in Replies, saved_ok \in BOOLEAN :
             LET n == Len(disp.lens) + 1
                 temp_text == [n |-> n, len |-> reply.len, body |-> reply.body]
                 d == [disp EXCEPT !.lens = Append(@, reply.len),
                                   !.temp_text = temp_text]
             IN
             IF Accepts(temp_text)
             THEN disp' = Finalize(d, temp_text, saved_ok)
             ELSE IF n < MaxAttempts
             THEN disp' = [d EXCEPT !.payload = Retry(@)]
             ELSE disp' = Finalize([d EXCEPT !.payload = Retry(@)], NoText,
                                   saved_ok)
    /\ UNCHANGED <<now, cfg, active, saved, procs, nextPid, port_cycle, pc,
                   uroute, uinfo, to_unload, req, fs>>

\* the response (or the error) has been sent
Respond ==
    /\ disp.phase = "done"
    /\ disp' = NoDisp
    /\ UNCHANGED <<now, cfg, active, saved, procs, nextPid, port_cycle, pc,
                   uroute, uinfo, to_unload, req, fs>>

\* The requests of SpecD follow each other within one protection window: the
\* clock stands still, so no record leaves its window and neither
\* start_server nor the idle checker (both studied in Spec) unloads a route.
NextD ==
    \/ ProcExit
    \/ Resolve
    \/ GetPort
    \/ FastReturn
    \/ StaleDiscard
    \/ Capacity
    \/ Start
    \/ HealthOk
    \/ HealthExhausted
    \/ Acquired
    \/ Post
    \/ Respond

SpecD == Init /\ [][NextD]_vars

\* ------------------------------------------- a request in flight, and time
\* SpecF: chat_completions as in SpecD, with the idle checker and with the
\* time that passes while the handler awaits the worker's reply (up to 180 s
\* per attempt, proxy.py line 189; the rest of the handler is taken as
\* instantaneous).
TickF ==
    /\ disp.phase = "forward"
    /\ TickB

\* one configuration: room for both routes, idle timeout of one minute
InitF ==
    /\ Init
    /\ cfg.max_concurrent = 2 /\ cfg.idle_timeout_min = 1

NextF ==
    \/ Resolve
    \/ GetPort
    \/ FastReturn
    \/ StaleDiscard
    \/ Capacity
    \/ Start
    \/ HealthOk
    \/ HealthExhausted
    \/ Acquired
    \/ Post
    \/ Respond
    \/ TickF
    \/ Sweep
    \/ SweepLoop
    \/ UnloadWait("reaper")
    \/ UnloadRemove("reaper")

SpecF == InitF /\ [][NextF]_vars

\* ------------------------------------------------- the single event loop
\* SpecQ: requests arrive at any time, but chat_completions is a coroutine of
\* the one event loop of uvicorn.run (proxy.py line 238) and calls
\* mgr.get_port without an await (line 143): while get_port runs, sleeps
\* included (time.sleep, lines 98-110 and 188 of the manager), no other
\* handler runs.  disp.waiting holds the routes named by the requests that
\* have arrived and whose handler has not started.

\* a request that names a known route arrives
Arrive ==
    /\ \E r \in Routes :
          /\ r \notin disp.waiting
          /\ disp' = [disp EXCEPT !.waiting = @ \cup {r}]
    /\ UNCHANGED <<now, cfg, active, saved, procs, nextPid, port_cycle, pc,
                   uroute, uinfo, to_unload, req, fs>>

\* the event loop is free and runs the handler of a waiting request up to
\* its call of get_port
Handle(r) ==
    /\ pc["main"] = "idle"
    /\ nextPid <= MaxPid
    /\ r \in disp.waiting
    /\ disp' = [disp EXCEPT !.waiting = @ \ {r}]
    /\ req' = [NoReq EXCEPT !.route = r]
    /\ pc' = [pc EXCEPT !["main"] = "get_port"]
    /\ UNCHANGED <<now, cfg, active, saved, procs, nextPid, port_cycle,
                   uroute, uinfo, to_unload, fs>>

NextQ ==
    \/ TickB
    \/ ProcExit
    \/ Arrive
    \/ \E r \in Routes : Handle(r)
    \/ GetPort
    \/ FastReturn
    \/ StaleDiscard
    \/ Capacity
    \/ UnloadWait("main")
    \/ UnloadRemove("main")
    \/ Start
    \/ HealthOk
    \/ HealthExhausted
    \/ Finish

SpecQ == Init /\ [][NextQ]_vars

\* ------------------------------------------------------ route resolution
\* SpecR: lines 61-140 alone, with the request's name and the oracle's answer
\* kept beside the route they lead to.
Route ==
    /\ disp.phase = "idle"
    /\ pc["main"] = "idle"
    /\ \E m \in ModelNames, o \in OracleReplies :
          disp' = [NoDisp EXCEPT !.phase = "routed", !.explicit = m,
                                 !.oracle = o,
                                 !.resolved = resolve_route(m, o),
                                 !.route = resolve_route(m, o)]
    /\ UNCHANGED <<now, cfg, active, saved, procs, nextPid, port_cycle, pc,
                   uroute, uinfo, to_unload, req, fs>>

\* the request goes on to get_port (SpecD)
Routed ==
    /\ disp.phase = "routed"
    /\ disp' = NoDisp
    /\ UNCHANGED <<now, cfg, active, saved, procs, nextPid, port_cycle, pc,
                   uroute, uinfo, to_unload, req, fs>>

NextR == Route \/ Routed

SpecR == Init /\ [][NextR]_vars

\* ------------------------------------------------------------ _load_state
\* What STATE_FILE may hold when __init__ runs.  A YAML document is a tagged
\* value [kind, data]; in SpecLoad `saved` is the file and `active` is the
\* value _load_state returns, tagged the same way.
Records == [port : {port_pool[i] : i \in DOMAIN port_pool}, pid : 1..MaxPid,
            last_used : {0}]
Tables == UNION {[S -> Records] : S \in SUBSET Routes}
StateFiles ==
    {[kind |-> "missing", data |-> ""],       \* no file
     [kind |-> "empty", data |-> ""],         \* empty file: safe_load gives None
     [kind |-> "unparsable", data |-> ":"],   \* safe_load raises YAMLError
     [kind |-> "scalar", data |-> "garbage"], \* plain text parses as a string
     [kind |-> "list", data |-> <<"r1">>]}    \* a YAML sequence
    \cup {[kind |-> "mapping", data |-> t] : t \in Tables}
EmptyMapping == [kind |-> "mapping", data |-> EmptyTable]

\* line 57: yaml.safe_load(f) or {} (None and the empty mapping are falsy)
safe_load_or_empty(file) ==
    IF file.kind = "empty" THEN EmptyMapping ELSE file

\* lines 51-61
load_state(file) ==
    IF file.kind = "missing" THEN EmptyMapping
    ELSE IF file.kind = "unparsable" THEN EmptyMapping
    ELSE safe_load_or_empty(file)

\* before line 47 of __init__: the file is whatever an earlier run (or anyone
\* else) left there
InitLoad ==
    /\ now = 0
    /\ cfg \in [max_concurrent : MaxConcurrentChoices,
                idle_timeout_min : IdleTimeoutChoices]
    /\ saved \in StateFiles
    /\ active = EmptyMapping
    /\ procs = EmptyTable
    /\ nextPid = 1
    /\ port_cycle = 1
    /\ pc = [t \in Threads |-> "boot"]
    /\ uroute = [t \in Threads |-> NoRoute]
    /\ uinfo = [t \in Threads |-> NoInfo]
    /\ to_unload = {}
    /\ req = NoReq
    /\ disp = NoDisp
    /\ fs = NoFs

\* lines 47-49: self.active = self._load_state(); the idle checker starts
LoadState ==
    /\ pc["main"] = "boot"
    /\ active' = load_state(saved)
    /\ pc' = [t \in Threads |-> IF t = "main" THEN "idle" ELSE "sleep"]
    /\ UNCHANGED <<now, cfg, saved, procs, nextPid, port_cycle, uroute, uinfo,
                   to_unload, req, disp, fs>>

NextLoad == LoadState

SpecLoad == InitLoad /\ [][NextLoad]_vars

\* ------------------------------------------------------ the polling loops
\* SpecPoll: get_port with the loops of _unload_route and start_server taken
\* one iteration at a time (each iteration sleeps, so the rest of the world
\* moves between two of them).  req.polls counts the iterations of the loop
\* the call is in.  The thread that runs the call keeps running: weak
\* fairness of its steps.
ExitPolls == 15
PortPolls == 25
HealthPolls == 18

\* (a variant that does not count)
NextPollStuck(n) == n
\* the next value of a range() iterator
NextPoll(n) == n + 1

\* lines 97-102: one iteration of the wait for the exit (sleep, then the
\* test); after the loop, SIGKILL if the process is still alive
ExitPoll ==
    /\ pc["main"] = "u_wait"
    /\ IF req.polls < ExitPolls /\ pid_exists(uinfo["main"].pid)
       THEN /\ req' = [req EXCEPT !.polls = NextPoll(@)]
            /\ UNCHANGED <<procs, uinfo, pc>>
       ELSE /\ procs' = ForceKill(uinfo["main"].pid)
            /\ uinfo' = [uinfo EXCEPT
                            !["main"].killed = pid_exists(uinfo["main"].pid)]
            /\ req' = [req EXCEPT !.polls = 0]
            /\ pc' = [pc EXCEPT !["main"] = "u_port"]
    /\ UNCHANGED <<now, cfg, active, saved, nextPid, port_cycle, uroute,
                   to_unload, disp, fs>>

\* lines 104-107: one iteration of the wait for the port; the bind test fails
\* while a process listens on the port, and may fail after that (a socket
\* that lingers, another program)
PortPoll ==
    /\ pc["main"] = "u_port"
    /\ \E free \in IF port_is_free(uinfo["main"].port) THEN BOOLEAN
                    ELSE {FALSE} :
          IF req.polls < PortPolls /\ ~free
          THEN /\ req' = [req EXCEPT !.polls = NextPoll(@)]
               /\ UNCHANGED pc
          ELSE /\ req' = [req EXCEPT !.polls = 0]
               /\ pc' = [pc EXCEPT !["main"] = "u_remove"]
    /\ UNCHANGED <<now, cfg, active, saved, procs, nextPid, port_cycle,
                   uroute, uinfo, to_unload, disp, fs>>

\* lines 173-192: one iteration of the health check (sleep, then the GET,
\* which a live worker answers with 200 or not yet), or the else branch of
\* the loop
HealthPoll ==
    /\ pc["main"] = "health"
    /\ IF req.polls < HealthPolls
       THEN \E ok \in IF pid_exists(req.pid) THEN BOOLEAN ELSE {FALSE} :
               IF ok
               THEN /\ procs' = [procs EXCEPT ![req.pid].ready = TRUE]
                    /\ active' = Put(active, req.route,
                                     [port |-> req.port, pid |-> req.pid,
                                      last_used |-> now])
                    /\ saved' = active'
                    /\ req' = [req EXCEPT !.healthy = TRUE, !.ret = "port",
                                          !.polls = NextPoll(@)]
                    /\ pc' = [pc EXCEPT !["main"] = "done"]
               ELSE /\ req' = [req EXCEPT !.polls = NextPoll(@)]
                    /\ UNCHANGED <<procs, active, saved, pc>>
       ELSE /\ procs' = KillSpawned
            /\ req' = [req EXCEPT !.ret = "none", !.cause = "timeout"]
            /\ pc' = [pc EXCEPT !["main"] = "done"]
            /\ UNCHANGED <<active, saved>>
    /\ UNCHANGED <<now, cfg, nextPid, port_cycle, uroute, uinfo, to_unload,
                   disp, fs>>

\* the steps of a call of get_port
CallPoll ==
    \/ GetPort
    \/ FastReturn
    \/ StaleDiscard
    \/ Capacity
    \/ ExitPoll
    \/ PortPoll
    \/ UnloadRemove("main")
    \/ Start
    \/ HealthPoll

NextPollStep ==
    \/ TickB
    \/ ProcExit
    \/ Begin
    \/ CallPoll
    \/ Finish

SpecPoll == Init /\ [][NextPollStep]_vars /\ WF_vars(CallPoll)

\* ------------------------------------------------------ the port scan
\* SpecPorts: the manager starts with an empty table while some ports of the
\* pool are already bound (workers left by an earlier run, or any other
\* program), and the cursor is anywhere in the pool.  The process that holds
\* the i-th port is named -i, apart from the pids the manager's spawns get.
InitPorts ==
    /\ now = 0
    /\ cfg \in [max_concurrent : MaxConcurrentChoices,
                idle_timeout_min : IdleTimeoutChoices]
    /\ active = EmptyTable
    /\ saved = EmptyTable
    /\ \E P \in SUBSET DOMAIN port_pool :
          procs = [p \in {0 - i : i \in P} |->
                      [port |-> port_pool[0 - p], ready |-> TRUE]]
    /\ nextPid = 1
    /\ port_cycle \in DOMAIN port_pool
    /\ pc = [t \in Threads |-> IF t = "main" THEN "idle" ELSE "sleep"]
    /\ uroute = [t \in Threads |-> NoRoute]
    /\ uinfo = [t \in Threads |-> NoInfo]
    /\ to_unload = {}
    /\ req = NoReq
    /\ disp = NoDisp
    /\ fs = NoFs

NextPorts ==
    \/ ProcExit
    \/ Begin
    \/ GetPort
    \/ FastReturn
    \/ StaleDiscard
    \/ Capacity
    \/ Start
    \/ HealthOk
    \/ HealthExhausted
    \/ Finish

SpecPorts == InitPorts /\ [][NextPorts]_vars

\* ------------------------------------------- the idle checker after a start
\* SpecSweep: the manager has loaded a table from STATE_FILE (line 47) and no
\* request arrives; only the IdleChecker thread runs.  A loaded record may
\* lack its pid, and the process of a loaded record may be gone.
LoadedRecords(r) ==
    {RecordOf(r), [port |-> RecordOf(r).port, last_used |-> 0]}
LoadedTables ==
    UNION {{t \in [S -> UNION {LoadedRecords(r) : r \in S}] :
               \A r \in S : t[r] \in LoadedRecords(r)} : S \in SUBSET Routes}
LoadedPids(t) == {t[r].pid : r \in {x \in DOMAIN t : WellFormed(t[x])}}

InitSweep ==
    /\ now = 0
    /\ cfg \in [max_concurrent : MaxConcurrentChoices,
                idle_timeout_min : IdleTimeoutChoices]
    /\ active \in LoadedTables
    /\ saved = active
    /\ \E P \in SUBSET LoadedPids(active) :
          procs = [p \in P |-> [port |-> port_pool[p], ready |-> TRUE]]
    /\ nextPid = Len(available_order) + 1
    /\ port_cycle = 1
    /\ pc = [t \in Threads |-> IF t = "main" THEN "idle" ELSE "sleep"]
    /\ uroute = [t \in Threads |-> NoRoute]
    /\ uinfo = [t \in Threads |-> NoInfo]
    /\ to_unload = {}
    /\ req = NoReq
    /\ disp = NoDisp
    /\ fs = NoFs

NextSweep ==
    \/ Tick
    \/ ProcExit
    \/ Sweep
    \/ SweepLoop
    \/ UnloadWait("reaper")
    \/ UnloadRemove("reaper")

SpecSweep == InitSweep /\ [][NextSweep]_vars

\* ------------------------------------------------------------ _save_state
\* SpecSave: the steps of _save_state (lines 63-71) and of a _load_state
\* (lines 51-61) run by another manager process (line 209, or a restart of
\* the proxy), one system call at a time.  `saved` is the content of
\* STATE_FILE, a tagged value as in SpecLoad; fs holds
\*   lock   - the holders of the flock on the file
\*   buf    - per writer, what yaml.dump has put into the buffer of its file
\*            object (a table of this size is far below the 8 KiB buffer, so
\*            nothing reaches the file before close)
\*   reader - where the reading process is
\*   seen   - what the reader's safe_load read
\*   dumped - the tables that a writer has serialised so far
\* The clock stands still; the record of a route is RecordOf.  Until the first
\* save there is no file (start.py line 80 removes it): saved = EmptyTable.
Mapping(t) == [kind |-> "mapping", data |-> t]
Truncated == [kind |-> "empty", data |-> ""]

InitSave ==
    /\ Init
    /\ cfg.max_concurrent = 2 /\ cfg.idle_timeout_min = 1

\* get_port on the main thread up to its mutation of the table: line 197
\* (refresh of a record whose process lives), line 202 (discard of a record
\* whose process is gone) or lines 166-190 (spawn and insert); _save_state
\* follows
Mutate ==
    /\ pc["main"] = "idle"
    /\ \E r \in Routes :
          IF r \in DOMAIN active
          THEN /\ active' = IF pid_exists(active[r].pid) THEN Touch(r)
                            ELSE Remove(active, r)
               /\ UNCHANGED procs
          ELSE /\ RecordOf(r).pid \notin DOMAIN procs
               /\ active' = Put(active, r, RecordOf(r))
               /\ procs' = Put(procs, RecordOf(r).pid,
                               [port |-> RecordOf(r).port, ready |-> TRUE])
    /\ pc' = [pc EXCEPT !["main"] = "s_open"]
    /\ UNCHANGED <<now, cfg, saved, nextPid, port_cycle, uroute, uinfo,
                   to_unload, req, disp, fs>>

\* lines 96-114: _unload_route on the checker's thread up to its removal of
\* the record; _save_state follows
Evict ==
    /\ pc["reaper"] = "sleep"
    /\ \E r \in DOMAIN active :
          /\ active' = Remove(active, r)
          /\ procs' = IF pid_exists(active[r].pid)
                      THEN Remove(procs, active[r].pid) ELSE procs
    /\ pc' = [pc EXCEPT !["reaper"] = "s_open"]
    /\ UNCHANGED <<now, cfg, saved, nextPid, port_cycle, uroute, uinfo,
                   to_unload, req, disp, fs>>

\* line 66: open(STATE_FILE, "w") creates or truncates the file
SaveOpen(t) ==
    /\ pc[t] = "s_open"
    /\ saved' = Truncated
    /\ pc' = [pc EXCEPT ![t] = "s_lock"]
    /\ UNCHANGED <<now, cfg, active, procs, nextPid, port_cycle, uroute,
                   uinfo, to_unload, req, disp, fs>>

\* line 67: flock(f, LOCK_EX) returns when nobody else holds the lock
SaveLock(t) ==
    /\ pc[t] = "s_lock"
    /\ fs.lock = {}
    /\ fs' = [fs EXCEPT !.lock = {t}]
    /\ pc' = [pc EXCEPT ![t] = "s_dump"]
    /\ UNCHANGED <<now, cfg, active, saved, procs, nextPid, port_cycle,
                   uroute, uinfo, to_unload, req, disp>>

\* line 68: yaml.dump(self.active, f) writes into the buffer of f
SaveDump(t) ==
    /\ pc[t] = "s_dump"
    /\ fs' = [fs EXCEPT !.buf[t] = Mapping(active),
                        !.dumped = @ \cup {active}]
    /\ pc' = [pc EXCEPT ![t] = "s_unlock"]
    /\ UNCHANGED <<now, cfg, active, saved, procs, nextPid, port_cycle,
                   uroute, uinfo, to_unload, req, disp>>

\* line 69: flock(f, LOCK_UN)
SaveUnlock(t) ==
    /\ pc[t] = "s_unlock"
    /\ fs' = [fs EXCEPT !.lock = @ \ {t}]
    /\ pc' = [pc EXCEPT ![t] = "s_close"]
    /\ UNCHANGED <<now, cfg, active, saved, procs, nextPid, port_cycle,
                   uroute, uinfo, to_unload, req, disp>>

\* What the file holds after the bytes of doc have been written at offset 0
\* of a file that holds old: a longer old document keeps its tail.
Overwrite(old, doc) ==
    IF old.kind = "empty" THEN doc
    ELSE IF old.kind = "mapping"
            /\ Cardinality(DOMAIN old.data) <= Cardinality(DOMAIN doc.data)
         THEN doc
    ELSE [kind |-> "unparsable", data |-> ":"]

\* the end of the with block of line 66: close() flushes the buffer
SaveClose(t) ==
    /\ pc[t] = "s_close"
    /\ saved' = Overwrite(saved, fs.buf[t])
    /\ fs' = [fs EXCEPT !.buf[t] = NoDoc]
    /\ pc' = [pc EXCEPT ![t] = IF t = "main" THEN "idle" ELSE "sleep"]
    /\ UNCHANGED <<now, cfg, active, procs, nextPid, port_cycle, uroute,
                   uinfo, to_unload, req, disp>>

\* lines 52-56: the file exists, open(STATE_FILE, "r"), flock(f, LOCK_SH)
ReadLock ==
    /\ fs.reader = "off"
    /\ saved # EmptyTable               \* STATE_FILE.exists()
    /\ fs.lock = {}
    /\ fs' = [fs EXCEPT !.lock = {"reader"}, !.reader = "r_load",
                        !.seen = NoDoc]
    /\ UNCHANGED <<now, cfg, active, saved, procs, nextPid, port_cycle, pc,
                   uroute, uinfo, to_unload, req, disp>>

\* line 57: yaml.safe_load(f)
ReadLoad ==
    /\ fs.reader = "r_load"
    /\ fs' = [fs EXCEPT !.reader = "r_unlock", !.seen = saved]
    /\ UNCHANGED <<now, cfg, active, saved, procs, nextPid, port_cycle, pc,
                   uroute, uinfo, to_unload, req, disp>>

\* line 58: flock(f, LOCK_UN); the reader is done
ReadUnlock ==
    /\ fs.reader = "r_unlock"
    /\ fs' = [fs EXCEPT !.lock = @ \ {"reader"}, !.reader = "off"]
    /\ UNCHANGED <<now, cfg, active, saved, procs, nextPid, port_cycle, pc,
                   uroute, uinfo, to_unload, req, disp>>

NextSave ==
    \/ ProcExit
    \/ Mutate
    \/ Evict
    \/ \E t \in Threads :
          SaveOpen(t) \/ SaveLock(t) \/ SaveDump(t) \/ SaveUnlock(t)
             \/ SaveClose(t)
    \/ ReadLock
    \/ ReadLoad
    \/ ReadUnlock

SpecSave == InitSave /\ [][NextSave]_vars

\* =============================================================== claims
Protected(r) == now - active[r].last_used < ProtectionWindow
LargeLowRam ==
    /\ req.route \in Routes
    /\ registry[req.route] >= large_threshold_gb
    /\ req.free # 0
    /\ req.free < registry[req.route] + ram_margin_gb
Returned == pc["main"] = "done"

\* C1: in every reachable state the active table holds at most max_concurrent
\* records.
C1_ActiveWithinMax == Cardinality(DOMAIN active) <= cfg.max_concurrent

\* C2: when the table holds max_concurrent records, all of them inside the
\* protection window, get_port for a route without a record fails, spawns no
\* process and inserts no record.
C2_FullProtectedFails ==
    (Returned /\ req.full /\ req.hit = 0 /\ req.stale = 0)
        => (req.ret # "port" /\ req.pid = 0 /\ ~req.healthy)

\* C3: while start_server evicts for capacity, the victim is outside the
\* protection window and no other unprotected record has a smaller last_used.
C3_VictimIsLRU ==
    (pc["main"] \in {"u_wait", "u_remove"} /\ uroute["main"] \in DOMAIN active)
        => LET v == uroute["main"] IN
           /\ ~Protected(v)
           /\ \A r \in DOMAIN active :
                  ~Protected(r) => active[v].last_used <= active[r].last_used
C3_Witness ==
    /\ pc["main"] = "u_remove"
    /\ uroute["main"] \in DOMAIN active
    /\ \E r \in DOMAIN active :
           /\ ~Protected(r)
           /\ active[r].last_used > active[uroute["main"]].last_used

\* C4: no two records of the active table hold the same port.
C4_DistinctPorts ==
    \A a, b \in DOMAIN active : a # b => active[a].port # active[b].port

\* C6: get_port on a route whose record names a live process returns the
\* port of that record, spawns nothing and evicts nothing.
C6_FastPathReturnsPort ==
    (Returned /\ req.hit # 0)
        => /\ req.ret = "port"
           /\ req.port = req.hit
           /\ req.pid = 0
           /\ req.evicted = NoRoute

\* C7: _unload_route called for a route without a record, or for a record
\* with now - last_used < 120, returns at once: nothing is terminated, and the
\* table and the state file are unchanged.
C7_ProtectedEvictIsNoop ==
    [][\A t \in Threads :
         LET r == uroute'[t]
             called == \/ t = "main" /\ pc[t] = "cap" /\ pc'[t] # "cap"
                                     /\ r # NoRoute
                       \/ t = "reaper" /\ pc[t] = "loop"
                                       /\ to_unload' # to_unload
         IN (called /\ (r \notin DOMAIN active \/ Protected(r)))
               => /\ pc'[t] \notin {"u_wait", "u_remove"}
                  /\ active' = active
                  /\ saved' = saved
                  /\ procs' = procs]_vars
C7_Witness ==
    /\ pc["main"] = "start"
    /\ uroute["main"] \in DOMAIN active
    /\ Protected(uroute["main"])
    /\ req.evicted = NoRoute

\* C8: eviction never removes a record at a moment when the record is inside
\* its protection window.
C8_NoProtectedEviction ==
    [][\A t \in Threads :
         (pc[t] = "u_remove" /\ pc'[t] # "u_remove"
          /\ uroute[t] \in DOMAIN active)
            => ~Protected(uroute[t])]_vars

\* C9 (as claimed): get_port for a registered large route fails whenever free
\* RAM is below the route's RAM plus the margin, without spawning or inserting.
C9_LargeLowRamFails ==
    (Returned /\ LargeLowRam)
        => (req.ret # "port" /\ req.pid = 0 /\ ~req.healthy)
\* C9 (amended): the same for every call that does not return through the
\* fast path of get_port, that is, whenever the route has no live record.
C9_LargeLowRamFailsToSpawn ==
    (Returned /\ LargeLowRam /\ req.hit = 0)
        => (req.ret # "port" /\ req.pid = 0 /\ ~req.healthy)
C9_Witness ==
    /\ Returned /\ LargeLowRam /\ req.hit = 0
    /\ req.ret = "none" /\ req.cause = "ram"

\* C10: when the record of the route names a dead process, get_port goes
\* through start_server, and a port it returns belongs to a new process that
\* passed its health check.
C10_StaleRespawns ==
    (Returned /\ req.stale # 0)
        => /\ req.ret # "raised"
           /\ req.ret = "port" => (req.healthy /\ req.pid # req.stale)

\* C11: a call of get_port that fails because the route is not in the registry
\* or because its model files are missing has evicted no record (and so has
\* terminated no process), also when the table was at max_concurrent.
C11_FailedAcquireLeavesPool ==
    (Returned /\ req.cause \in {"unknown_route", "model_missing"})
        => req.evicted = NoRoute

\* C12: with max_concurrent = 1, a call of get_port that finds the table
\* holding at most one record, none inside its protection window, and that
\* succeeds, has removed that record and terminated its process before it
\* inserts its own record; the route is served by a newly spawned process (no
\* fast path), and the table holds exactly the new record after the insertion.
C12_EvictThenInsert ==
    [][(/\ cfg.max_concurrent = 1
        /\ pc["main"] = "health" /\ req'.ret = "port"
        /\ req.n <= 1 /\ ~req.full)
          => /\ DOMAIN active = {}
             /\ req.n = 1 => (req.epid # 0 /\ req.epid \notin DOMAIN procs)
             /\ req.hit = 0
             /\ DOMAIN active' = {req.route}
             /\ active'[req.route].pid = req.pid
             /\ req.pid # req.epid
             /\ req.pid \in DOMAIN procs']_vars
C12_Witness ==
    /\ cfg.max_concurrent = 1
    /\ Returned /\ req.ret = "port"
    /\ req.route = "r1" /\ req.evicted = "r2" /\ req.n = 1
    /\ req.epid = 2 /\ req.pid = 3
    /\ DOMAIN active = {"r1"}

\* C13: every record of the table names a process that answered its health
\* check (or that has exited since), a port returned by start_server belongs
\* to a process that passed the check, and when the polls are exhausted the
\* spawned process is killed, get_port returns None and the route has no
\* record.
C13_InsertOnlyAfterHealth ==
    /\ \A r \in DOMAIN active :
           active[r].pid \in DOMAIN procs => procs[active[r].pid].ready
    /\ (Returned /\ req.ret = "port" /\ req.hit = 0) => req.healthy
    /\ (pc["main"] = "health") => req.route \notin DOMAIN active
    /\ (Returned /\ req.cause = "timeout")
          => /\ req.pid # 0 /\ req.pid \notin DOMAIN procs
             /\ req.ret = "none" /\ ~req.healthy
             /\ req.route \notin DOMAIN active
C13_Witness ==
    /\ Returned /\ req.cause = "timeout" /\ req.pid # 0
    /\ DOMAIN active # {}

\* C14: as long as a record stays in the table (same route, same process), no
\* step of get_port, of an eviction or of the idle checker lowers its
\* last_used.
C14_LastUsedMonotone ==
    [][\A r \in DOMAIN active \cap DOMAIN active' :
          active'[r].pid = active[r].pid
             => active'[r].last_used >= active[r].last_used]_vars
C14_Witness ==
    /\ pc["main"] = "fast_ret" /\ req.hit # 0
    /\ req.route \in DOMAIN active
    /\ active[req.route].last_used = now /\ now >= 2 * TickSeconds
    /\ active[req.route].pid = 1
    /\ Cardinality(DOMAIN active) = 2

\* C15: once __init__ has loaded the state, self.active is a mapping, and it
\* is the empty mapping unless the file held a well-formed route-to-record
\* mapping.
C15_LoadStateTolerant ==
    pc["main"] = "idle"
        => /\ active.kind = "mapping"
           /\ ~(saved.kind = "mapping" /\ saved.data \in Tables)
                 => active.data = EmptyTable

\* C16: the handler calls get_port for the resolved route; it calls it a
\* second time, for the default route, exactly when the first call returned
\* no port; it answers 503 exactly when both calls returned no port; and when
\* the second call returned a port the request goes to the port of the
\* default route's record.
C16_FallbackOnce ==
    LET c == disp.calls IN
    /\ Len(c) <= 2
    /\ disp.phase # "idle" => (Len(c) >= 1 /\ c[1].route = disp.resolved)
    /\ Len(c) = 2 => (c[1].ret = "none" /\ c[2].route = general_fast)
    /\ (Len(c) >= 1 /\ c[1].ret = "none") => Len(c) = 2
    /\ disp.status = 503
          <=> (Len(c) = 2 /\ c[1].ret = "none" /\ c[2].ret = "none")
    /\ (Len(c) = 2 /\ c[2].ret = "port")
          => /\ disp.route = general_fast
             /\ general_fast \in DOMAIN active
             /\ disp.port = active[general_fast].port
C16_Witness ==
    /\ disp.phase = "forward"
    /\ disp.resolved = "r2"
    /\ Len(disp.calls) = 2 /\ disp.calls[2].ret = "port"

\* C17: a reply of length >= 50 ends the loop: no attempt follows it, and its
\* text (what lines 204-208 leave of it) is the content of the response.
C17_ThresholdInclusive ==
    \A i \in DOMAIN disp.lens :
        disp.lens[i] >= MinLength
           => /\ i = Len(disp.lens)
              /\ disp.phase = "done"
              /\ (disp.status = 200 /\ disp.temp_text.body > 0)
                    => disp.content = Clean(disp.temp_text)

\* C18: when k replies shorter than 50 are followed by one of length >= 50
\* (k <= 2), the worker has been called k + 1 times, the payload carries k
\* continuation messages and k token boosts, and the content of the response
\* is that last reply.
C18_RetriesThenAccept ==
    \A i \in DOMAIN disp.lens :
        (/\ disp.lens[i] >= MinLength
         /\ \A j \in 1..(i - 1) : disp.lens[j] < MinLength)
           => /\ Len(disp.lens) = i /\ i <= MaxAttempts
              /\ disp.payload.extra = i - 1
              /\ disp.payload.max_tokens
                    = DefaultMaxTokens + (i - 1) * TokenBoost
              /\ (disp.status = 200 /\ disp.temp_text.body > 0)
                    => (disp.content.n = i /\ disp.content.len = disp.temp_text.body)

\* C19: when all three replies are shorter than 50, a response that is sent
\* carries the text of the last reply; the apology stands in only for an
\* empty text.
C19_LastTextKept ==
    (/\ disp.phase = "done" /\ disp.status = 200
     /\ Len(disp.lens) = MaxAttempts
     /\ \A i \in DOMAIN disp.lens : disp.lens[i] < MinLength)
       => IF disp.temp_text.body = 0 THEN disp.content = Apology
          ELSE disp.content.n = MaxAttempts

\* C20: a response with status 200 is annotated with the resolved route when
\* the first get_port returned a port and with the default route otherwise,
\* and the request went to the port of that route's record.
C20_AnnotatedWithServingRoute ==
    (disp.phase = "done" /\ disp.status = 200)
       => /\ disp.model = IF disp.calls[1].ret = "port" THEN disp.resolved
                          ELSE general_fast
          /\ disp.model \in DOMAIN active
          /\ active[disp.model].port = disp.port
C20_Witness ==
    /\ disp.phase = "done" /\ disp.status = 200
    /\ disp.resolved = "r2" /\ Len(disp.calls) = 2
    /\ disp.model = "r1"
    /\ disp.content.n = 2

\* C21: whatever name the request carries and whatever the oracle answers,
\* the resolved route is a known route or the default route, and no error
\* status has been set.
C21_RouteAlwaysKnown ==
    disp.phase = "routed"
       => /\ disp.route \in AVAILABLE_ROUTES \cup {general_fast}
          /\ disp.status = 0
C21_Witness ==
    /\ disp.phase = "routed"
    /\ disp.explicit = ""
    /\ disp.oracle.kind = "json" /\ disp.oracle.route \in UnknownRoutes
    /\ disp.route = general_fast

\* C22: a request that names a route that is not known resolves to the route
\* the same request resolves to without the name (the oracle is asked).
C22_InvalidNameIsAbsent ==
    (/\ disp.phase = "routed"
     /\ disp.explicit # "" /\ disp.explicit \notin AVAILABLE_ROUTES)
       => disp.route = resolve_route("", disp.oracle)

\* C23: a request that ends with a failure of the exchange with the worker
\* (unreachable, error status, malformed reply) has status 502, and a request
\* with status 500 ended with a failure that is not one of the worker's.
C23_BackendFailureIs502 ==
    disp.phase = "done"
       => /\ (disp.fail \in BackendFailures => disp.status = 502)
          /\ (disp.status = 500 => disp.fail \notin BackendFailures)

\* C24: the idle checker is never inside _unload_route (after its membership
\* and protection checks, before its removal of the record) while a request's
\* get_port is between its own membership check and its mutation of the
\* table (return of the fast path, discard of a stale record, capacity check,
\* port selection).
C24_AcquireEvictExclusive ==
    ~(/\ pc["reaper"] \in {"u_wait", "u_remove"}
      /\ pc["main"] \in {"fast_ret", "stale_del", "cap", "start"})

\* C25: while get_port for one route is in a blocking phase (waiting for an
\* evicted worker to exit, or polling the health of a spawned worker), the
\* handler of a waiting request for another route that has a record with a
\* live process can start its get_port.
Blocking == pc["main"] \in {"u_wait", "health"}
C25_FastPathNotBlocked ==
    \A r \in disp.waiting :
        (/\ Blocking
         /\ r # req.route
         /\ r \in DOMAIN active
         /\ pid_exists(active[r].pid))
           => ENABLED Handle(r)

\* C26: what a reader of STATE_FILE reads under its lock is a complete
\* document, the serialisation of a table that a writer dumped, and two
\* writers are never both between their open and their close of the file.
Writing(t) == pc[t] \in {"s_lock", "s_dump", "s_unlock", "s_close"}
C26_NoPartialRead ==
    /\ fs.seen # NoDoc
          => (fs.seen.kind = "mapping" /\ fs.seen.data \in fs.dumped)
    /\ ~(Writing("main") /\ Writing("reaper"))

\* C27: whenever neither thread is inside a pool operation or its save, the
\* file holds the in-memory table.
C27_QuiescentFileIsTable ==
    (pc["main"] = "idle" /\ pc["reaper"] = "sleep" /\ fs.dumped # {})
       => saved = Mapping(active)

\* C28: a record that is beyond the idle timeout and the protection window
\* always has a running idle checker to evict it.
Overdue(r) ==
    /\ now - active[r].last_used > cfg.idle_timeout_min * 60
    /\ ~Protected(r)
C28_OverdueHasChecker ==
    \A r \in DOMAIN active : Overdue(r) => pc["reaper"] # "raised"

\* C29: a failure of the eviction of one route does not end the sweep while
\* routes of that sweep are still to be unloaded.
C29_SweepSurvivesFailure ==
    ~(pc["reaper"] = "raised" /\ to_unload # {})

\* C30: a step of start_server that reaches the port scan fails for lack of
\* a port only when no port of the pool is free, and then spawns nothing;
\* when it spawns, the port is free and no port between the cursor and it, in
\* the cyclic order of the pool, is free.
FreeIdx == {i \in DOMAIN port_pool : port_is_free(port_pool[i])}
CyclicDist(i) == (i - port_cycle) % Len(port_pool)
C30_Scan ==
    (pc["main"] = "start" /\ pc'["main"] # "start")
       => /\ req'.cause = "no_port" => (FreeIdx = {} /\ procs' = procs)
          /\ pc'["main"] = "health" =>
                \E i \in FreeIdx :
                    /\ req'.port = port_pool[i]
                    /\ \A j \in FreeIdx : CyclicDist(i) <= CyclicDist(j)
C30_FirstFreePort == [][C30_Scan]_vars
C30_Witness ==
    /\ pc["main"] = "health"
    /\ req.port = port_pool[2]
    /\ port_cycle = 1
    /\ ~port_is_free(port_pool[1])

\* C31: in every _unload_route that passed its guard, the SIGKILL is sent
\* only to a process that is still alive after the wait; when the record is
\* removed the process is gone (also when it was gone before any signal),
\* and the step that ends the eviction leaves no record of the route and a
\* saved table equal to the table.
C31_Step(t) ==
    /\ (pc[t] = "u_wait" /\ pc'[t] = "u_remove")
          => /\ uinfo'[t].killed => pid_exists(uinfo[t].pid)
             /\ uinfo[t].pid \notin DOMAIN procs'
    /\ (pc[t] = "u_remove" /\ pc'[t] # "u_remove")
          => /\ uinfo[t].pid \notin DOMAIN procs
             /\ uroute[t] \notin DOMAIN active'
             /\ saved' = active'
SmallRoute == req.route \in Routes /\ registry[req.route] < large_threshold_gb
C32_SmallNeverRamRejected ==
    (Returned /\ SmallRoute) => req.cause # "ram"
C32_Witness ==
    /\ Returned /\ SmallRoute
    /\ req.free < registry[req.route] + ram_margin_gb
    /\ req.ret = "port" /\ req.pid # 0
    /\ Cardinality(DOMAIN procs) = 2

\* C33: every call of get_port returns (a port, or a failure), whatever the
\* worker, the evicted process and the port do; and no loop runs more
\* iterations than its bound.
C33_Terminates == (pc["main"] = "get_port") ~> (pc["main"] = "done")
C33_Witness ==
    /\ Returned
    /\ req.cause = "timeout" /\ req.polls = HealthPolls
    /\ req.evicted # NoRoute

\* C34: when the fast path of get_port returns a port, the idle checker is
\* not inside _unload_route for that worker (SIGTERM sent, record not yet
\* removed).
TornDown(port) ==
    /\ pc["reaper"] \in {"u_wait", "u_remove"}
    /\ uinfo["reaper"].port = port
C34_FastPathPortNotTornDown ==
    (Returned /\ req.hit # 0 /\ req.ret = "port") => ~TornDown(req.port)

\* C35: while a request is being forwarded to a worker, no eviction of that
\* worker begins.
C35_Step(t) ==
    ~(/\ disp.phase = "forward"
      /\ pc[t] # "u_wait" /\ pc'[t] = "u_wait"
      /\ uinfo'[t].port = disp.port)
C35_InFlightNotEvicted == [][\A t \in Threads : C35_Step(t)]_vars

\* C36: the record that the last step of _unload_route removes names the
\* process that this _unload_route terminated.
C36_Step(t) ==
    (/\ pc[t] = "u_remove" /\ pc'[t] # "u_remove"
     /\ uroute[t] \in DOMAIN active
     /\ uroute[t] \notin DOMAIN active')
       => active[uroute[t]].pid = uinfo[t].pid
C36_EvictRemovesOwnRecord == [][\A t \in Threads : C36_Step(t)]_vars

====
